---- MODULE Spec2Model ----
(***************************************************************************)
(* A model of sunpy/io/jp2.py: the JPEG 2000 reader and writer that keeps  *)
(* a FITS-style header as an XML box inside the container.                 *)
(*                                                                         *)
(* A Python str is a sequence of one-character tokens; the token "sup2"    *)
(* stands for U+00B2 (SUPERSCRIPT TWO), a character for which              *)
(* str.isdigit() is true although int() and float() reject it.  A header   *)
(* value is a tagged record: str, int, float (m * 10^-e, normalised),      *)
(* the float nan, or bool.                                                 *)
(*                                                                         *)
(* Spec     : one write(fname, data, header) call, taken statement by      *)
(*            statement, surrounded by get_header/read calls on fname.     *)
(* SpecRead : get_header/read on well-formed containers of any origin.     *)
(* SpecXml  : header_to_xml applied to header mappings.                    *)
(***************************************************************************)
EXTENDS Integers, Sequences, FiniteSets, TLC

\* ------------------------------------------------------------- bounds
\* longest string value of a written header
MaxValLen == 1
\* longest element text of a container that write did not produce
MaxTextLen == 2
\* most keys the iteration of a written header yields
MaxIter == 1
\* most keys the iteration of a header handed to header_to_xml alone yields
MaxXmlIter == 3
\* most rows of a pixel array
MaxRows == 2

\* ------------------------------------------------------ Python strings
DecimalChars == <<"0", "1", "2", "3", "4", "5", "6", "7", "8", "9">>

IsDecimalChar(c) == \E i \in 1..Len(DecimalChars) : DecimalChars[i] = c

\* str.isdigit() is true of the decimal digits and of the other characters
\* of Unicode numeric type Digit, such as the superscript digits.
IsDigitChar(c) == IsDecimalChar(c) \/ c = "sup2"

IsSpaceChar(c) == c \in {" ", "\n"}

DigitChar(d) == DecimalChars[d + 1]

DigitVal(c) == (CHOOSE i \in 1..Len(DecimalChars) : DecimalChars[i] = c) - 1

\* the characters the enumerated input strings are made of
Alphabet == {"1", ".", "a", "\n", "sup2"}

RECURSIVE StringsUpTo(_)
StringsUpTo(n) ==
    IF n = 0 THEN {<<>>}
    ELSE LET shorter == StringsUpTo(n - 1)
         IN  shorter \cup {Append(s, c) : s \in shorter, c \in Alphabet}

RECURSIVE Pow10(_)
Pow10(e) == IF e = 0 THEN 1 ELSE 10 * Pow10(e - 1)

Abs(n) == IF n < 0 THEN -n ELSE n

\* ------------------------------------------------------- Python values
StrV(s) == [t |-> "str", s |-> s]
IntV(n) == [t |-> "int", n |-> n]
FloatV(m, e) == [t |-> "float", m |-> m, e |-> e]
NanV == [t |-> "nan"]
BoolV(b) == [t |-> "bool", b |-> b]

\* a float m * 10^-e with its trailing decimal zeros removed
RECURSIVE NormFloat(_, _)
NormFloat(m, e) ==
    IF e > 0 /\ m % 10 = 0 THEN NormFloat(m \div 10, e - 1) ELSE FloatV(m, e)

RECURSIVE StrNat(_)
StrNat(n) ==
    IF n < 10 THEN <<DigitChar(n)>> ELSE Append(StrNat(n \div 10), DigitChar(n % 10))

\* the e decimal digits of the fraction f / 10^e
RECURSIVE FracDigits(_, _)
FracDigits(f, e) ==
    IF e = 0 THEN <<>> ELSE Append(FracDigits(f \div 10, e - 1), DigitChar(f % 10))

\* str(data) of a str, an int or a float (the shortest repr; in the range
\* modelled Python never switches to exponent notation)
PyStr(v) ==
    CASE v.t = "str" -> v.s
      [] v.t = "int" -> (IF v.n < 0 THEN <<"-">> ELSE <<>>) \o StrNat(Abs(v.n))
      [] v.t = "nan" -> <<"n", "a", "n">>
      [] v.t = "bool" -> IF v.b THEN <<"T", "r", "u", "e">> ELSE <<"F", "a", "l", "s", "e">>
      [] v.t = "float" ->
            (IF v.m < 0 THEN <<"-">> ELSE <<>>)
            \o StrNat(Abs(v.m) \div Pow10(v.e))
            \o <<".">>
            \o (IF v.e = 0 THEN <<"0">> ELSE FracDigits(Abs(v.m) % Pow10(v.e), v.e))

\* v.isdigit()
IsDigit(s) == Len(s) > 0 /\ \A i \in 1..Len(s) : IsDigitChar(s[i])

AllDecimal(s) == \A i \in 1..Len(s) : IsDecimalChar(s[i])

RECURSIVE NatOf(_)
NatOf(s) ==
    IF Len(s) = 0 THEN 0
    ELSE 10 * NatOf(SubSeq(s, 1, Len(s) - 1)) + DigitVal(s[Len(s)])

RECURSIVE LStrip(_)
LStrip(s) == IF Len(s) > 0 /\ IsSpaceChar(Head(s)) THEN LStrip(Tail(s)) ELSE s

RECURSIVE RStrip(_)
RStrip(s) ==
    IF Len(s) > 0 /\ IsSpaceChar(s[Len(s)]) THEN RStrip(SubSeq(s, 1, Len(s) - 1)) ELSE s

Strip(s) == RStrip(LStrip(s))

\* int(v) of a string: surrounding whitespace and a sign are allowed, the
\* rest must be decimal digits; anything else raises ValueError.
PyInt(s) ==
    LET b == Strip(s)
        signed == Len(b) > 0 /\ Head(b) \in {"-", "+"}
        d == IF signed THEN Tail(b) ELSE b
    IN  IF Len(d) > 0 /\ AllDecimal(d)
        THEN [ok |-> TRUE, v |-> IntV(IF signed /\ Head(b) = "-" THEN -NatOf(d) ELSE NatOf(d))]
        ELSE [ok |-> FALSE, v |-> StrV(s)]

\* float(v) of a string: surrounding whitespace, a sign, then nan or a
\* decimal number "digits[.digits]" with a digit on at least one side of the
\* point; anything else raises ValueError.
PyFloat(s) ==
    LET b == Strip(s)
        signed == Len(b) > 0 /\ Head(b) \in {"-", "+"}
        neg == signed /\ Head(b) = "-"
        d == IF signed THEN Tail(b) ELSE b
        dots == {i \in 1..Len(d) : d[i] = "."}
        p == IF dots = {} THEN Len(d) + 1 ELSE CHOOSE i \in dots : \A j \in dots : i <= j
        ip == SubSeq(d, 1, p - 1)
        fp == SubSeq(d, p + 1, Len(d))
        mag == NatOf(ip \o fp)
    IN  IF d = <<"n", "a", "n">> THEN [ok |-> TRUE, v |-> NanV]
        ELSE IF Len(ip) + Len(fp) > 0 /\ AllDecimal(ip) /\ AllDecimal(fp)
        THEN [ok |-> TRUE, v |-> NormFloat(IF neg THEN -mag ELSE mag, Len(fp))]
        ELSE [ok |-> FALSE, v |-> StrV(s)]

\* sunpy.util.io.string_is_float: whether float(s) succeeds
string_is_float(s) == PyFloat(s).ok

\* --------------------------------------------------- XML and containers
\* header keys; lxml refuses a tag that is no XML name (here: one with a
\* space in it) with ValueError
ValidTags == {"K", "comment", "helioviewer"}

HeaderKeys == ValidTags \cup {"BAD KEY"}

IsXmlName(key) == key \in ValidTags

\* a leaf element <tag>text</tag>
Leaf(tag, text) == [tag |-> tag, text |-> text]

\* an element with leaf children
Element(tag, children) == [tag |-> tag, children |-> children]

\* an XML document: its root element's tag and the root's child elements
Doc(root, children) == [root |-> root, children |-> children]

NoDoc == Doc("", <<>>)

\* doc.find(tag): the index of the first child of the root with this tag,
\* 0 for None
Find(doc, tag) ==
    LET hits == {i \in 1..Len(doc.children) : doc.children[i].tag = tag}
    IN  IF hits = {} THEN 0 ELSE CHOOSE i \in hits : \A j \in hits : i <= j

\* xml_to_dict(xmlstring)["fits"]: child tag -> child text; a later child
\* of the same tag replaces an earlier one
XmlToDict(el) ==
    LET n == Len(el.children)
        last(tag) == CHOOSE i \in 1..n :
                        /\ el.children[i].tag = tag
                        /\ \A j \in 1..n : el.children[j].tag = tag => j <= i
    IN  [tag \in {el.children[i].tag : i \in 1..n} |-> StrV(el.children[last(tag)].text)]

\* a box of the container: its identifier and, for an XML box, its document
Box(box_id) == [box_id |-> box_id, xml |-> NoDoc]

XMLBox(doc) == [box_id |-> "xml ", xml |-> doc]

\* the box list of a container the codec has just encoded from pixel data
StdBoxes == <<Box("jP  "), Box("ftyp"), Box("jp2h"), Box("jp2c")>>

\* the box lists the codec's encode is taken to produce: the standard one
\* and the shortest possible, the codestream box alone
DefaultBoxLists == {StdBoxes, <<Box("jp2c")>>}

NoFile == [kind |-> "absent", box |-> <<>>, pixels |-> <<>>]

\* what an interrupted encode or rewrite leaves on disk
Partial == [kind |-> "partial", box |-> <<>>, pixels |-> <<>>]

Jp2File(box, pixels) == [kind |-> "jp2", box |-> box, pixels |-> pixels]

\* ------------------------------------------------------------- headers
Range(seq) == {seq[i] : i \in 1..Len(seq)}

RECURSIVE SeqsUpTo(_, _)
SeqsUpTo(S, n) ==
    IF n = 0 THEN {<<>>}
    ELSE LET shorter == SeqsUpTo(S, n - 1)
         IN  shorter \cup {Append(s, c) : s \in shorter, c \in S}

\* a header mapping: the keys its iteration yields, in order (a key may
\* come several times), and what header.get(key) returns
Header(keys, get) == [keys |-> keys, get |-> get]

HeadersOver(keyseqs, values) ==
    UNION {{Header(ks, g) : g \in [Range(ks) -> values]} : ks \in keyseqs}

IntValues == {IntV(-1), IntV(42)}

FloatValues == {FloatV(5, 1), FloatV(1, 0), FloatV(-314, 2), NanV}

BoolValues == {BoolV(TRUE), BoolV(FALSE)}

HeaderValues ==
    {StrV(s) : s \in StringsUpTo(MaxValLen)} \cup IntValues \cup FloatValues \cup BoolValues

\* the headers write is called with
WriteHeaders == HeadersOver(SeqsUpTo(HeaderKeys, MaxIter) \ {<<>>}, HeaderValues)

\* the headers header_to_xml alone is applied to
XmlValues == {StrV(<<"a">>), IntV(42), FloatV(5, 1), BoolV(TRUE), BoolV(FALSE)}

XmlHeaders == HeadersOver(SeqsUpTo(HeaderKeys, MaxXmlIter), XmlValues)

\* pixel arrays of n rows (one sample a row): a ramp from `first` in steps
\* of 3; the ramp from 253 leaves the 8-bit range in its second row
Ramp(n, first) == [i \in 1..n |-> first + 3 * (i - 1)]

PixelArrays == {Ramp(n, 0) : n \in 1..MaxRows} \cup {Ramp(MaxRows, 253)}

\* ------------------------------------------------------ pure functions
\* get_tmp_jp2_file_name
get_tmp_jp2_file_name(filename) == filename \o ".tmp.jp2"

\* str() for every value, a bool included
StringifyBoolAsWord(data) == PyStr(data)

\* the text header_to_xml gives an element
Stringify(data) ==
    IF data.t = "bool" THEN (IF data.b THEN <<"1">> ELSE <<"0">>) ELSE PyStr(data)

\* the loop without the already_added test
RECURSIVE HeaderToXmlLoopNoSet(_, _, _, _)
HeaderToXmlLoopNoSet(header, i, already_added, fits) ==
    IF i > Len(header.keys) THEN [ok |-> TRUE, fits |-> fits]
    ELSE LET key == header.keys[i]
         IN  IF ~IsXmlName(key)
             THEN [ok |-> FALSE, fits |-> fits]
             ELSE HeaderToXmlLoopNoSet(
                      header, i + 1, already_added,
                      Element("fits", Append(fits.children,
                                             Leaf(key, Stringify(header.get[key])))))

RECURSIVE HeaderToXmlLoop(_, _, _, _)
HeaderToXmlLoop(header, i, already_added, fits) ==
    IF i > Len(header.keys) THEN [ok |-> TRUE, fits |-> fits]
    ELSE LET key == header.keys[i]
         IN  IF key \in already_added
             THEN HeaderToXmlLoop(header, i + 1, already_added, fits)
             ELSE IF ~IsXmlName(key)
             THEN [ok |-> FALSE, fits |-> fits]
             ELSE HeaderToXmlLoop(
                      header, i + 1, already_added \cup {key},
                      Element("fits", Append(fits.children,
                                             Leaf(key, Stringify(header.get[key])))))

\* header_to_xml: ok is FALSE when lxml raised ValueError on a key
header_to_xml(header) == HeaderToXmlLoop(header, 1, {}, Element("fits", <<>>))

\* generate_jp2_xmlbox, for a header header_to_xml accepts
generate_jp2_xmlbox(header) == XMLBox(Doc("meta", <<header_to_xml(header).fits>>))

\* list.insert(i, x)
ListInsert(list, i, x) ==
    LET n == Len(list)
        j == IF i < 0 THEN (IF i + n < 0 THEN 0 ELSE i + n) ELSE (IF i > n THEN n ELSE i)
    IN  SubSeq(list, 1, j) \o <<x>> \o SubSeq(list, j + 1, n)

\* meta_boxes.append(fits_box)
AppendFitsBox(meta_boxes, fits_box) == Append(meta_boxes, fits_box)

\* meta_boxes.insert(target_index, fits_box)
InsertFitsBox(meta_boxes, fits_box) == ListInsert(meta_boxes, Len(meta_boxes) - 1, fits_box)

\* np.uint8(data)
Uint8(data) == [i \in 1..Len(data) |-> data[i] % 256]

\* data, not reversed
NotReversed(data) == data

\* data[::-1]
Reversed(data) == [i \in 1..Len(data) |-> data[Len(data) + 1 - i]]

\* [box for box in jp2.box if box.box_id == 'xml ']
RECURSIVE XmlBoxes(_)
XmlBoxes(box) ==
    IF box = <<>> THEN <<>>
    ELSE (IF Head(box).box_id = "xml " THEN <<Head(box)>> ELSE <<>>) \o XmlBoxes(Tail(box))

\* one pass of the "Fix types" loop body over a value
FixType(v) ==
    IF IsDigit(v.s) THEN PyInt(v.s)
    ELSE IF string_is_float(v.s) THEN PyFloat(v.s)
    ELSE [ok |-> TRUE, v |-> v]

\* v.replace("\n", "")
RECURSIVE RemoveNewlines(_)
RemoveNewlines(s) ==
    IF s = <<>> THEN <<>>
    ELSE (IF Head(s) = "\n" THEN <<>> ELSE <<Head(s)>>) \o RemoveNewlines(Tail(s))


\* ------------------------------------------------------------ the state
\* the destination of the write call and the file the reads open
fname == "out.jp2"

tmpname == get_tmp_jp2_file_name(fname)

VARIABLES
    fs,          \* the files on disk: path -> file
    pc,          \* the statement the running call is at; "idle" between calls
    op,          \* the running (or last) call: "write", "get_header", "read", "xml"
    data,        \* write: the data argument
    header,      \* write, header_to_xml: the header argument
    meta_boxes,  \* write: the box list handed to jp2.wrap
    wstatus,     \* write: "none" before the call, "running", "ok", or the exception
    wstage,      \* write: the statement that raised
    xml_box,     \* get_header: the list of the container's XML boxes
    pydict,      \* get_header: the header under construction
    ret          \* what the last get_header, read or header_to_xml call returned

vars == <<fs, pc, op, data, header, meta_boxes, wstatus, wstage, xml_box, pydict, ret>>

NoHeader == Header(<<>>, <<>>)

\* no call has returned yet
NoReturn == [status |-> "none", exc |-> "", value |-> <<>>]

Returned(value) == [status |-> "ok", exc |-> "", value |-> value]

Raised(exc) == [status |-> "error", exc |-> exc, value |-> <<>>]

\* HDPair(data, header)
HDPair(d, h) == [data |-> d, header |-> h]

\* a file of the Helioviewer Project: the XML box holds a helioviewer
\* element beside the fits element
HelioviewerFile ==
    Jp2File(
        InsertFitsBox(
            StdBoxes,
            XMLBox(Doc("meta", <<Element("fits", <<Leaf("helioviewer", <<"a">>)>>),
                                 Element("helioviewer", <<>>)>>))),
        <<7, 9>>)

\* what may be at the destination before write is called
OldFiles == {NoFile, HelioviewerFile}

Locals(f, p, o, h) ==
    /\ fs = [path \in {fname, tmpname} |-> IF path = fname THEN f ELSE NoFile]
    /\ pc = p
    /\ op = o
    /\ data = <<>>
    /\ header = h
    /\ meta_boxes = <<>>
    /\ wstatus = "none"
    /\ wstage = ""
    /\ xml_box = <<>>
    /\ pydict = <<>>
    /\ ret = NoReturn

Init == \E f \in OldFiles : Locals(f, "idle", "none", NoHeader)

\* ---------------------------------------------------------------- write
write_vars == <<data, header, meta_boxes, wstatus, wstage>>

read_vars == <<xml_box, pydict>>

\* lines 157-159: the codec encodes the pixel data into the temporary file
WriteEncode ==
    /\ pc = "idle"
    /\ wstatus = "none"
    /\ \E d \in PixelArrays, h \in WriteHeaders, boxes \in DefaultBoxLists :
          /\ data' = d
          /\ header' = h
          /\ fs' = [fs EXCEPT ![tmpname] = Jp2File(boxes, Uint8(d))]
    /\ pc' = "w_box"
    /\ op' = "write"
    /\ wstatus' = "running"
    /\ ret' = NoReturn
    /\ UNCHANGED <<meta_boxes, wstage, read_vars>>

\* line 159 raising: the codec fails, having created the file or not
WriteEncodeFail ==
    /\ pc = "idle"
    /\ wstatus = "none"
    /\ \E d \in PixelArrays, h \in WriteHeaders, left \in {fs[tmpname], Partial} :
          /\ data' = d
          /\ header' = h
          /\ fs' = [fs EXCEPT ![tmpname] = left]
    /\ pc' = "idle"
    /\ op' = "write"
    /\ wstatus' = "CodecError"
    /\ wstage' = "encode"
    /\ ret' = NoReturn
    /\ UNCHANGED <<meta_boxes, read_vars>>

\* lines 162-165: the box list of the temporary container, with the XML
\* box inserted; header_to_xml raises on a key that is no XML name
WriteBuildBox ==
    /\ pc = "w_box"
    /\ IF header_to_xml(header).ok
       THEN /\ meta_boxes' = InsertFitsBox(fs[tmpname].box, generate_jp2_xmlbox(header))
            /\ pc' = "w_wrap"
            /\ UNCHANGED <<wstatus, wstage>>
       ELSE /\ pc' = "idle"
            /\ wstatus' = "ValueError"
            /\ wstage' = "box"
            /\ UNCHANGED meta_boxes
    /\ UNCHANGED <<fs, op, data, header, read_vars, ret>>

\* line 168: jp2.wrap writes the destination from the box list and the
\* codestream of the temporary file
WriteWrap ==
    /\ pc = "w_wrap"
    /\ fs' = [fs EXCEPT ![fname] = Jp2File(meta_boxes, fs[tmpname].pixels)]
    /\ pc' = "w_remove"
    /\ UNCHANGED <<op, write_vars, read_vars, ret>>

\* line 168 raising, with the temporary file removed on the way out
WriteWrapFailWithCleanup ==
    /\ pc = "w_wrap"
    /\ \E left \in {fs[fname], Partial} :
          fs' = [fs EXCEPT ![fname] = left, ![tmpname] = NoFile]
    /\ pc' = "idle"
    /\ wstatus' = "CodecError"
    /\ wstage' = "wrap"
    /\ UNCHANGED <<op, data, header, meta_boxes, xml_box, pydict, ret>>

\* line 168 raising: jp2.wrap fails before it opens the destination, or
\* while it writes it
WriteWrapFail ==
    /\ pc = "w_wrap"
    /\ \E left \in {fs[fname], Partial} : fs' = [fs EXCEPT ![fname] = left]
    /\ pc' = "idle"
    /\ wstatus' = "CodecError"
    /\ wstage' = "wrap"
    /\ UNCHANGED <<op, data, header, meta_boxes, read_vars, ret>>

\* line 171: os.remove(tmpname), and the return
WriteRemove ==
    /\ pc = "w_remove"
    /\ fs' = [fs EXCEPT ![tmpname] = NoFile]
    /\ pc' = "idle"
    /\ wstatus' = "ok"
    /\ UNCHANGED <<op, data, header, meta_boxes, wstage, read_vars, ret>>

\* line 171 raising: os.remove fails and the file stays
WriteRemoveFail ==
    /\ pc = "w_remove"
    /\ pc' = "idle"
    /\ wstatus' = "OSError"
    /\ wstage' = "remove"
    /\ UNCHANGED <<fs, op, data, header, meta_boxes, read_vars, ret>>

\* ------------------------------------------------- get_header and read
\* the exception a statement of get_header raises ends the call
Raise(exc) ==
    /\ pc' = "idle"
    /\ ret' = Raised(exc)
    /\ xml_box' = <<>>
    /\ pydict' = <<>>

\* read line 33 / get_header lines 54-55: open the container and collect
\* its XML boxes; the codec refuses what is no container
GetHeaderOpen ==
    /\ pc = "idle"
    /\ \E o \in {"get_header", "read"} : op' = o
    /\ IF fs[fname].kind = "jp2"
       THEN /\ xml_box' = XmlBoxes(fs[fname].box)
            /\ pc' = "gh_parse"
            /\ ret' = NoReturn
            /\ UNCHANGED pydict
       ELSE Raise("CodecError")
    /\ UNCHANGED <<fs, write_vars>>

\* lines 56-57: the fits element of the first XML box, as a dict;
\* xml_box[0] of an empty list raises IndexError, ET.tostring(None) raises
\* AttributeError
GetHeaderParse ==
    /\ pc = "gh_parse"
    /\ IF xml_box = <<>> THEN Raise("IndexError")
       ELSE IF Find(xml_box[1].xml, "fits") = 0 THEN Raise("AttributeError")
       ELSE /\ pydict' = XmlToDict(xml_box[1].xml.children[Find(xml_box[1].xml, "fits")])
            /\ pc' = "gh_fix"
            /\ UNCHANGED <<xml_box, ret>>
    /\ UNCHANGED <<fs, op, write_vars>>

\* lines 60-64: the "Fix types" loop; int() raises ValueError
GetHeaderFixTypes ==
    /\ pc = "gh_fix"
    /\ IF \A k \in DOMAIN pydict : FixType(pydict[k]).ok
       THEN /\ pydict' = [k \in DOMAIN pydict |-> FixType(pydict[k]).v]
            /\ pc' = "gh_comment"
            /\ UNCHANGED <<xml_box, ret>>
       ELSE Raise("ValueError")
    /\ UNCHANGED <<fs, op, write_vars>>

\* lines 67-68: the newlines of the comment; an int or a float has no
\* replace and raises AttributeError
GetHeaderComment ==
    /\ pc = "gh_comment"
    /\ IF "comment" \notin DOMAIN pydict
       THEN /\ pc' = "gh_return"
            /\ UNCHANGED <<pydict, xml_box, ret>>
       ELSE IF pydict["comment"].t = "str"
       THEN /\ pydict' = [pydict EXCEPT !["comment"] = StrV(RemoveNewlines(pydict["comment"].s))]
            /\ pc' = "gh_return"
            /\ UNCHANGED <<xml_box, ret>>
       ELSE Raise("AttributeError")
    /\ UNCHANGED <<fs, op, write_vars>>

\* pydict.setdefault('helioviewer', ...): a field of that name wins
SetDefaultHelioviewer(d, doc) ==
    [k \in DOMAIN d \cup {"helioviewer"} |->
        IF k \in DOMAIN d THEN d[k] ELSE BoolV(Find(doc, "helioviewer") # 0)]

\* the header with pydict['helioviewer'] set (line 71)
WithHelioviewer(d, doc) ==
    [k \in DOMAIN d \cup {"helioviewer"} |->
        IF k = "helioviewer" THEN BoolV(Find(doc, "helioviewer") # 0) ELSE d[k]]

\* lines 71-73: the helioviewer key and get_header's return; read goes on
GetHeaderReturn ==
    /\ pc = "gh_return"
    /\ pydict' = WithHelioviewer(pydict, xml_box[1].xml)
    /\ IF op = "read"
       THEN /\ pc' = "r_decode"
            /\ UNCHANGED <<xml_box, ret>>
       ELSE /\ pc' = "idle"
            /\ ret' = Returned(<<HDPair(<<>>, WithHelioviewer(pydict, xml_box[1].xml))>>)
            /\ xml_box' = <<>>
    /\ UNCHANGED <<fs, op, write_vars>>

\* read lines 34-35: decode, reverse the first axis, return the pair
ReadDecode ==
    /\ pc = "r_decode"
    /\ ret' = Returned(<<HDPair(Reversed(fs[fname].pixels), pydict)>>)
    /\ pc' = "idle"
    /\ xml_box' = <<>>
    /\ pydict' = <<>>
    /\ UNCHANGED <<fs, op, write_vars>>

WriteStep ==
    \/ WriteEncode
    \/ WriteEncodeFail
    \/ WriteBuildBox
    \/ WriteWrap
    \/ WriteWrapFail
    \/ WriteRemove
    \/ WriteRemoveFail

ReadStep ==
    \/ GetHeaderOpen
    \/ GetHeaderParse
    \/ GetHeaderFixTypes
    \/ GetHeaderComment
    \/ GetHeaderReturn
    \/ ReadDecode

Next == WriteStep \/ ReadStep

Spec == Init /\ [][Next]_vars

\* --------------------------------------- reading containers of any origin
\* the fits fragments of the containers read: no field, one field of any
\* tag and text, or such a field followed by a second one
SecondFields == {Leaf("K", <<"1">>), Leaf("comment", <<"a", "\n">>)}

FitsFragments ==
    LET fields == {Leaf(tag, text) : tag \in ValidTags, text \in StringsUpTo(MaxTextLen)}
    IN  {<<>>} \cup {<<f>> : f \in fields} \cup {<<f, g>> : f \in fields, g \in SecondFields}

\* the documents of their XML boxes: a fits element, with or without a
\* helioviewer element beside it, or no fits element at all
XmlDocs ==
    {Doc("meta", <<Element("fits", fr)>> \o hv) :
        fr \in FitsFragments, hv \in {<<>>, <<Element("helioviewer", <<>>)>>}}
    \cup {Doc("meta", <<>>), Doc("meta", <<Element("helioviewer", <<>>)>>)}

\* well-formed containers: without an XML box, or with one before the
\* codestream box
ForeignFiles ==
    {Jp2File(StdBoxes, <<7, 9>>)}
    \cup {Jp2File(InsertFitsBox(StdBoxes, XMLBox(doc)), <<7, 9>>) : doc \in XmlDocs}

InitRead == \E f \in ForeignFiles : Locals(f, "idle", "none", NoHeader)

NextRead == ReadStep

SpecRead == InitRead /\ [][NextRead]_vars

\* ------------------------------------------------ header_to_xml alone
InitXml ==
    \E h \in XmlHeaders : Locals(NoFile, "xml", "xml", h)

\* lines 89-111: the call and what it returns
HeaderToXmlCall ==
    /\ pc = "xml"
    /\ ret' = IF header_to_xml(header).ok
              THEN Returned(<<header_to_xml(header).fits>>)
              ELSE Raised("ValueError")
    /\ pc' = "idle"
    /\ UNCHANGED <<fs, op, write_vars, read_vars>>

NextXml == HeaderToXmlCall

SpecXml == InitXml /\ [][NextXml]_vars

\* =============================================================== claims
\* the last call was one of `ops` and has ended
CallEnded(ops) == pc = "idle" /\ op \in ops /\ ret.status # "none"

CallReturned(ops) == CallEnded(ops) /\ ret.status = "ok"

ReturnedHeader == ret.value[1].header

\* Python's ==, on the values modelled: numbers (bool included) compare by
\* value, nan equals nothing, a str equals only the same str.
IsNumber(v) == v.t \in {"int", "float", "bool"}

Mantissa(v) ==
    CASE v.t = "int" -> v.n
      [] v.t = "bool" -> IF v.b THEN 1 ELSE 0
      [] v.t = "float" -> v.m

Scale(v) == IF v.t = "float" THEN v.e ELSE 0

PyEq(a, b) ==
    \/ a.t = "str" /\ b.t = "str" /\ a.s = b.s
    \/ /\ IsNumber(a)
       /\ IsNumber(b)
       /\ Mantissa(a) * Pow10(Scale(b)) = Mantissa(b) * Pow10(Scale(a))

Is8Bit(d) == \A i \in 1..Len(d) : d[i] \in 0..255

\* the fits element of the first XML box of a container
FitsOf(file) ==
    LET doc == XmlBoxes(file.box)[1].xml
    IN  doc.children[CHOOSE i \in 1..Len(doc.children) : doc.children[i].tag = "fits"]

HasFits(file) ==
    /\ file.kind = "jp2"
    /\ XmlBoxes(file.box) # <<>>
    /\ \E i \in 1..Len(XmlBoxes(file.box)[1].xml.children) :
          XmlBoxes(file.box)[1].xml.children[i].tag = "fits"

\* the texts of the children of element el that carry this tag
TextsOf(el, tag) ==
    {el.children[i].text : i \in {j \in 1..Len(el.children) : el.children[j].tag = tag}}

\* no field of the fits fragment holds a digit character that is not a
\* decimal digit (such a field ends the call in the "Fix types" loop, C4)
DecimalDigitsOnly(el) ==
    \A i \in 1..Len(el.children) : "sup2" \notin Range(el.children[i].text)

SurvivesCoercion(k, v) ==
    /\ v.t = "str" => ~IsDigit(v.s) /\ ~PyFloat(v.s).ok
    /\ v.t # "nan"
    /\ k = "comment" => v.t = "str" /\ "\n" \notin Range(v.s)
    /\ k = "helioviewer" => PyEq(v, BoolV(FALSE))

MissingMetadataErrorRaised ==
    ( /\ CallEnded({"get_header", "read"})
      /\ fs[fname].kind = "jp2"
      /\ \A i \in 1..Len(fs[fname].box) : fs[fname].box[i].box_id # "xml " ) =>
        ret = Raised("MissingMetadataError")

\* ---------------------------------------------------------------- C3
\* C3: the box list handed to the rewrite is the codec's default list with
\* exactly one box added: the last box is the default list's last box, the
\* XML metadata box is second to last, the others keep their order.
BoxOrdering ==
    pc \in {"w_wrap", "w_remove"} =>
        LET default == fs[tmpname].box
            n == Len(default)
        IN  /\ Len(meta_boxes) = n + 1
            /\ meta_boxes[n + 1] = default[n]
            /\ meta_boxes[n] = XMLBox(Doc("meta", <<header_to_xml(header).fits>>))
            /\ \A i \in 1..(n - 1) : meta_boxes[i] = default[i]

\* the list of the standard four boxes is about to be written
BoxOrderingWitness ==
    /\ pc = "w_wrap"
    /\ Len(fs[tmpname].box) = 4
    /\ meta_boxes[4].box_id = "xml "

\* ---------------------------------------------------------------- C4
\* what C4 says a text becomes: the integer a string of digits denotes,
\* else the float a float literal denotes, else the string itself
CoercionRule(s) ==
    IF Len(s) > 0 /\ AllDecimal(s) THEN IntV(NatOf(s))
    ELSE IF PyFloat(s).ok THEN PyFloat(s).v
    ELSE StrV(s)

\* C4: get_header coerces every value of the fits fragment by the rule
\* digits -> int, float literal -> float, anything else unchanged: the
\* "Fix types" loop ends, and with every key holding the coerced value.
TypeCoercion ==
    /\ pc = "gh_comment" =>
          \A k \in DOMAIN pydict :
              \E s \in TextsOf(FitsOf(fs[fname]), k) : pydict[k] = CoercionRule(s)
    /\ (CallEnded({"get_header", "read"}) /\ HasFits(fs[fname])) =>
          ret # Raised("ValueError")

\* the part of C4 the code keeps: a text in which every digit character
\* is a decimal digit is coerced by the rule
TypeCoercionOfDecimalTexts ==
    ( /\ pc = "gh_comment"
      /\ DecimalDigitsOnly(FitsOf(fs[fname])) ) =>
        \A k \in DOMAIN pydict :
            \E s \in TextsOf(FitsOf(fs[fname]), k) : pydict[k] = CoercionRule(s)

\* ---------------------------------------------------------------- C5
\* the text write stored for key k
StoredText(k) == CHOOSE s \in TextsOf(FitsOf(fs[fname]), k) : TRUE

BoolText(v) == IF v.b THEN <<"1">> ELSE <<"0">>

\* C5, as stated, of the calls that return: True is stored as "1" and
\* False as "0", and the value read back under that key is still that
\* string.
BooleanReadsBackAsString ==
    (wstatus = "ok" /\ CallReturned({"get_header", "read"})) =>
        \A k \in Range(header.keys) :
            header.get[k].t = "bool" =>
                /\ StoredText(k) = BoolText(header.get[k])
                /\ ReturnedHeader[k] = StrV(BoolText(header.get[k]))

\* C5, amended: True is stored as "1" and False as "0"; in the header a
\* get_header or read of that file returns, the value is the integer 1 or
\* 0, neither the string nor a bool (under the key "helioviewer" the
\* synthetic flag has replaced it).
BooleanReadsBackAsInteger ==
    (wstatus = "ok" /\ CallEnded({"get_header", "read"})) =>
        \A k \in Range(header.keys) :
            header.get[k].t = "bool" =>
                /\ StoredText(k) = BoolText(header.get[k])
                /\ ret.status = "ok" =>
                      ReturnedHeader[k] =
                          IF k = "helioviewer" THEN BoolV(FALSE)
                          ELSE IntV(IF header.get[k].b THEN 1 ELSE 0)

\* True was written under an ordinary key and has been read back
BooleanWitness ==
    /\ wstatus = "ok"
    /\ CallReturned({"get_header", "read"})
    /\ \E k \in Range(header.keys) \ {"comment", "helioviewer"} :
          /\ header.get[k] = BoolV(TRUE)
          /\ ReturnedHeader[k] = IntV(1)

\* ---------------------------------------------------------------- C6
\* C6, of the fragments whose digits are all decimal: whatever the text of
\* the comment field, get_header returns, and the comment of the header is
\* that text without its newline characters.
CommentNewlinesStripped ==
    ( /\ CallEnded({"get_header", "read"})
      /\ HasFits(fs[fname])
      /\ TextsOf(FitsOf(fs[fname]), "comment") # {}
      /\ DecimalDigitsOnly(FitsOf(fs[fname])) ) =>
        /\ ret.status = "ok"
        /\ ReturnedHeader["comment"].t = "str"
        /\ "\n" \notin Range(ReturnedHeader["comment"].s)
        /\ \E s \in TextsOf(FitsOf(fs[fname]), "comment") :
              ReturnedHeader["comment"].s = SelectSeq(s, LAMBDA c : c # "\n")

\* ---------------------------------------------------------------- C7
\* C7: the header get_header returns always has the key "helioviewer",
\* True exactly when the document of the XML box has a helioviewer element
\* beside the fits element, whatever field of that name the fits fragment
\* holds; a file that write produced reads back with False.
HelioviewerMarker ==
    CallReturned({"get_header", "read"}) =>
        LET doc == XmlBoxes(fs[fname].box)[1].xml
        IN  /\ "helioviewer" \in DOMAIN ReturnedHeader
            /\ ReturnedHeader["helioviewer"] =
                  BoolV(\E i \in 1..Len(doc.children) : doc.children[i].tag = "helioviewer")
            /\ wstatus = "ok" => ReturnedHeader["helioviewer"] = BoolV(FALSE)

\* a header with a field named helioviewer was written and read back
HelioviewerWitness ==
    /\ wstatus = "ok"
    /\ CallReturned({"get_header", "read"})
    /\ "helioviewer" \in Range(header.keys)
    /\ header.get["helioviewer"] = StrV(<<"a">>)

\* a file with the helioviewer element was read
HelioviewerTrueWitness ==
    /\ CallReturned({"get_header", "read"})
    /\ ReturnedHeader["helioviewer"] = BoolV(TRUE)

\* ---------------------------------------------------------------- C8
\* the destination holds the container write was to produce
FinalContainer(file) ==
    /\ file.kind = "jp2"
    /\ file.pixels = [i \in 1..Len(data) |-> data[i] % 256]
    /\ \E i \in 1..Len(file.box) :
          file.box[i] = XMLBox(Doc("meta", <<header_to_xml(header).fits>>))

\* C8: the temporary file exists when the destination is written and is
\* deleted only once the destination holds the final container; after a
\* successful write it is gone and the destination is final; after a
\* failure later than its creation it is still on disk.
TempFileLifecycle ==
    /\ [][fs'[fname] # fs[fname] => fs[tmpname].kind = "jp2"]_vars
    /\ [][(fs[tmpname] # NoFile /\ fs'[tmpname] = NoFile) =>
              (FinalContainer(fs[fname]) /\ fs'[fname] = fs[fname])]_vars
    /\ [](wstatus = "ok" => (fs[tmpname] = NoFile /\ FinalContainer(fs[fname])))
    /\ [](wstage \in {"box", "wrap", "remove"} => fs[tmpname].kind = "jp2")

\* the rewrite has failed and the temporary file is on disk
TempFileLeftBehind ==
    /\ wstatus = "CodecError"
    /\ wstage = "wrap"
    /\ fs[tmpname].kind = "jp2"

\* ---------------------------------------------------------------- C9
\* C9: after a failed write the destination is untouched or holds the
\* complete final container, never a partial one.
NoPartialDestination ==
    wstage # "" => (fs[fname] \in OldFiles \/ FinalContainer(fs[fname]))

\* --------------------------------------------------------------- C10
\* the distinct keys of an iteration, each at its first place
RECURSIVE FirstOccurrences(_)
FirstOccurrences(keys) ==
    IF keys = <<>> THEN <<>>
    ELSE LET front == SubSeq(keys, 1, Len(keys) - 1)
             key == keys[Len(keys)]
         IN  IF key \in Range(front) THEN FirstOccurrences(front)
             ELSE Append(FirstOccurrences(front), key)

TextOfValue(v) ==
    CASE v = BoolV(TRUE) -> <<"1">>
      [] v = BoolV(FALSE) -> <<"0">>
      [] OTHER -> PyStr(v)

\* C10: the tree header_to_xml returns is rooted at "fits" and has one
\* child for each distinct key, in the order of the keys' first
\* occurrence, with the key as tag and the stringified value as text.
HeaderToXmlChildren ==
    (op = "xml" /\ ret.status = "ok") =>
        LET fits == ret.value[1]
            keys == FirstOccurrences(header.keys)
        IN  /\ fits.tag = "fits"
            /\ Len(fits.children) = Cardinality(Range(header.keys))
            /\ Len(fits.children) = Len(keys)
            /\ \A i \in 1..Len(keys) :
                  fits.children[i] = [tag |-> keys[i], text |-> TextOfValue(header.get[keys[i]])]

\* a header whose iteration repeats its first key after another one
HeaderToXmlWitness ==
    /\ op = "xml"
    /\ ret.status = "ok"
    /\ Len(header.keys) = 3
    /\ header.keys[1] = header.keys[3]
    /\ header.keys[1] # header.keys[2]
    /\ Len(ret.value[1].children) = 2
====
